---- MODULE Spec2Model ----
(***************************************************************************)
(* The policy-gradient agent of hw2 (cs285/agents/pg_agent.py) and its     *)
(* value critic (cs285/networks/critics.py) as a state machine.            *)
(*                                                                         *)
(* Real numbers are exact rationals <<n, d>> in lowest terms with d > 0,   *)
(* so that the estimators are compared as mathematical functions and not   *)
(* up to floating-point rounding.                                          *)
(***************************************************************************)
EXTENDS Integers, Sequences, FiniteSets, TLC

(***************************************************************************)
(* Bounds of the model.                                                    *)
(***************************************************************************)
\* the most trajectories in one call of update
MaxTraj == 2
\* the most timesteps of one trajectory
MaxLen == 2
\* rewards are the integers 0..MaxReward
MaxReward == 1
\* observations are 0..MaxOb, the critic predicts a value in 0..MaxVal for each
MaxOb == 1
MaxVal == 1
\* gamma and lambda are k/GammaDen, k in 0..GammaDen
GammaDen == 2
\* baseline_gradient_steps given to the constructor are at most MaxSteps
MaxSteps == 2
\* the most calls of update on one agent
MaxUpdates == 1

(***************************************************************************)
(* Exact rational arithmetic.                                              *)
(***************************************************************************)
\* An Optional value is a sequence of length at most one: None is <<>>, and
\* a set value x is <<x>>.
None == <<>>
Some(x) == <<x>>

Abs(x) == IF x < 0 THEN -x ELSE x

RECURSIVE GCD(_, _)
GCD(a, b) == IF b = 0 THEN a ELSE GCD(b, a % b)

RNorm(n, d) ==
    LET s == IF d < 0 THEN -1 ELSE 1
        g == GCD(Abs(n), Abs(d))
    IN  <<(s * n) \div g, (s * d) \div g>>

RInt(i) == <<i, 1>>
Zero == RInt(0)
One == RInt(1)
RAdd(x, y) == RNorm(x[1] * y[2] + y[1] * x[2], x[2] * y[2])
RNeg(x) == <<-x[1], x[2]>>
RSub(x, y) == RAdd(x, RNeg(y))
RMul(x, y) == RNorm(x[1] * y[1], x[2] * y[2])
RDiv(x, y) == RNorm(x[1] * y[2], x[2] * y[1])

\* x ** k for an integer k >= 0; Python's 0 ** 0 is 1
RECURSIVE RPow(_, _)
RPow(x, k) == IF k = 0 THEN One ELSE RMul(x, RPow(x, k - 1))

\* Python's sum(list) and "acc = 0; acc += ..." : a left fold from 0
RECURSIVE SumUpTo(_, _)
SumUpTo(s, k) == IF k = 0 THEN Zero ELSE RAdd(SumUpTo(s, k - 1), s[k])
Sum(s) == SumUpTo(s, Len(s))

IsSquare(n) == \E k \in 0..n : k * k = n
ISqrt(n) == CHOOSE k \in 0..n : k * k = n

(***************************************************************************)
(* np.concatenate of a non-empty list of 1-D arrays.                       *)
(***************************************************************************)
RECURSIVE ConcatUpTo(_, _)
ConcatUpTo(arrays, k) ==
    IF k = 0 THEN <<>> ELSE ConcatUpTo(arrays, k - 1) \o arrays[k]
Concatenate(arrays) == ConcatUpTo(arrays, Len(arrays))

\* the discount of reward t taken one power too high
DiscountedReturnShifted(g, r) ==
    LET total_return == Sum([t \in 1..Len(r) |-> RMul(RPow(g, t), RInt(r[t]))])
    IN  [t \in 1..Len(r) |-> total_return]

(***************************************************************************)
(* PGAgent._discounted_return: sum_{t} gamma^t r_t at every index.         *)
(***************************************************************************)
DiscountedReturn(g, r) ==
    LET total_return == Sum([t \in 1..Len(r) |-> RMul(RPow(g, t - 1), RInt(r[t]))])
    IN  [t \in 1..Len(r) |-> total_return]

\* gamma ** t_prime in place of gamma ** (t_prime - t)
DiscountedRewardToGoAbsolute(g, r) ==
    LET n == Len(r)
    IN  [t \in 1..n |->
            Sum([j \in 1..(n - t + 1) |->
                    RMul(RPow(g, t + j - 2), RInt(r[t + j - 1]))])]

(***************************************************************************)
(* PGAgent._discounted_reward_to_go: for each t, the inner loop over       *)
(* t_prime = t..n-1 adds gamma ** (t_prime - t) * rewards[t_prime].        *)
(* Indices are 1-based here: t_prime = t + j - 1.                          *)
(***************************************************************************)
DiscountedRewardToGo(g, r) ==
    LET n == Len(r)
    IN  [t \in 1..n |->
            Sum([j \in 1..(n - t + 1) |->
                    RMul(RPow(g, j - 1), RInt(r[t + j - 1]))])]

(***************************************************************************)
(* PGAgent._calculate_q_vals: one list of Q-values per trajectory.         *)
(***************************************************************************)
CalculateQVals(g, rtg, rews) ==
    IF ~rtg
    THEN [k \in 1..Len(rews) |-> DiscountedReturn(g, rews[k])]
    ELSE [k \in 1..Len(rews) |-> DiscountedRewardToGo(g, rews[k])]

(***************************************************************************)
(* ValueCritic.forward on a flattened batch of n observations: the network *)
(* has output_size 1, so its output has shape (n, 1), and squeeze() drops  *)
(* every axis of length 1: shape (n,) for n /= 1 and shape () for n = 1.   *)
(* The critic's parameters are the table of its predictions.               *)
(***************************************************************************)
CriticForward(table, obs_f) ==
    [shape |-> IF Len(obs_f) = 1 THEN <<>> ELSE <<Len(obs_f)>>,
     data  |-> [i \in 1..Len(obs_f) |-> RInt(table[obs_f[i]])]]

\* the bootstrap value not masked by (1 - terminals[i])
DeltaTUnmasked(g, values, rewards, terminals, i) ==
    RSub(RAdd(RInt(rewards[i]), RMul(g, values[i + 1])), values[i])

(***************************************************************************)
(* delta_t of the GAE loop at batch index i (1-based); values carries the  *)
(* appended dummy 0 at index batch_size + 1.                               *)
(***************************************************************************)
DeltaT(g, values, rewards, terminals, i) ==
    RSub(RAdd(RInt(rewards[i]),
              RMul(RMul(g, values[i + 1]), RInt(1 - terminals[i]))),
         values[i])

\* the carried advantage not masked by (1 - terminals[i])
GaeStepUnmasked(g, lam, delta_t, next_advantage, terminal) ==
    RAdd(delta_t, RMul(RMul(g, lam), next_advantage))

\* the carried advantage discounted by gamma alone
GaeStepWithoutLambda(g, lam, delta_t, next_advantage, terminal) ==
    RAdd(delta_t, RMul(RMul(g, next_advantage), RInt(1 - terminal)))

(***************************************************************************)
(* One pass of the reversed loop body: advantages[i] from next_advantage.  *)
(***************************************************************************)
GaeStep(g, lam, delta_t, next_advantage, terminal) ==
    RAdd(delta_t, RMul(RMul(RMul(g, lam), next_advantage), RInt(1 - terminal)))

(***************************************************************************)
(* advantages[i] of the GAE loop, for i in reversed(range(batch_size)):    *)
(* next_advantage is 0 before the first pass (i = batch_size).             *)
(***************************************************************************)
RECURSIVE GaeAdvantage(_, _, _, _, _, _, _)
GaeAdvantage(g, lam, values, rewards, terminals, batch_size, i) ==
    IF i > batch_size
    THEN Zero
    ELSE GaeStep(g, lam,
                 DeltaT(g, values, rewards, terminals, i),
                 GaeAdvantage(g, lam, values, rewards, terminals, batch_size, i + 1),
                 terminals[i])

(***************************************************************************)
(* An advantage array is [vals, normalized, variance]: entry i is vals[i]  *)
(* when normalized is FALSE, and vals[i] / (sqrt(variance) + 1e-8) when it *)
(* is TRUE (the quotient is kept exact rather than rounded).               *)
(***************************************************************************)
Eps == <<1, 100000000>>

RawAdvantages(vals) == [vals |-> vals, normalized |-> FALSE, variance |-> Zero]

\* lines 165-169: (advantages - mean) / (np.std(advantages) + 1e-8)
Normalize(vals) ==
    LET n == Len(vals)
        mean == RDiv(Sum(vals), RInt(n))
        centered == [i \in 1..n |-> RSub(vals[i], mean)]
        variance == RDiv(Sum([i \in 1..n |-> RMul(centered[i], centered[i])]), RInt(n))
    IN  [vals |-> centered, normalized |-> TRUE, variance |-> variance]

\* whether entry i of an advantage array is the rational x
AdvantageIs(adv, i, x) ==
    IF ~adv.normalized
    THEN adv.vals[i] = x
    ELSE IF x = Zero
    THEN adv.vals[i] = Zero
    ELSE \* vals[i] / x = sqrt(variance) + 1e-8, with a rational left side
         /\ IsSquare(adv.variance[1])
         /\ IsSquare(adv.variance[2])
         /\ RSub(RDiv(adv.vals[i], x),
                 RNorm(ISqrt(adv.variance[1]), ISqrt(adv.variance[2]))) = Eps

\* the advantages normalized whatever normalize_advantages says
PostProcessAlways(norm, vals) == Normalize(vals)

\* lines 164-170: the advantages as computed, or normalized
PostProcess(norm, vals) == IF norm THEN Normalize(vals) ELSE RawAdvantages(vals)

(***************************************************************************)
(* PGAgent._estimate_advantage on the flattened batch.  The result is      *)
(* [error, advantages]: error is "none", or the exception that ends the    *)
(* call ("AssertionError" of line 135, "IndexError" of terminals[i]).      *)
(* crit is the critic's table; has_critic says self.critic is not None.    *)
(***************************************************************************)
EstimateAdvantage(has_critic, crit, lam, g, norm, obs_f, rew_f, q_f, term_f) ==
    LET pred == CriticForward(crit, obs_f)
        batch_size == Len(obs_f)
        values == pred.data \o <<Zero>>
        failed(e) == [error |-> e, advantages |-> RawAdvantages(<<>>)]
        done(vals) == [error |-> "none", advantages |-> PostProcess(norm, vals)]
    IN  IF ~has_critic
        THEN done(q_f)
        ELSE IF pred.shape /= <<Len(q_f)>>
        THEN failed("AssertionError")
        ELSE IF lam = None
        THEN done([i \in 1..batch_size |-> RSub(q_f[i], pred.data[i])])
        ELSE IF batch_size > Len(term_f)
        THEN failed("IndexError")
        ELSE done([i \in 1..batch_size |->
                    GaeAdvantage(g, lam[1], values, rew_f, term_f, batch_size, i)])

(***************************************************************************)
(* State.  The agent's attributes keep their names; actor is the number of *)
(* updates applied to the policy's parameters, critic is None or           *)
(* Some([table, steps]): the table of the value network's predictions and  *)
(* the number of optimizer steps applied to it.                            *)
(* obs, actions, rewards, terminals are the arguments of update (one array *)
(* per trajectory); q_values and advantages are update's locals after      *)
(* flattening; reached is the set of steps of update that were completed;  *)
(* calls lists the invocations of actor.update and critic.update of the    *)
(* call in order; info is the returned dict, result is "none" before any   *)
(* call, "returned", or the exception that ended the call.                 *)
(* twin_rewards and twin_advantages belong to a second application of the  *)
(* estimators to a batch with other rewards.                               *)
(***************************************************************************)
VARIABLES actor, critic, baseline_gradient_steps, gamma, use_reward_to_go,
          gae_lambda, normalize_advantages,
          obs, actions, rewards, terminals,
          q_values, advantages, reached, calls, info, result, n_updates,
          twin_rewards, twin_advantages

agentVars == <<actor, critic, baseline_gradient_steps, gamma, use_reward_to_go,
               gae_lambda, normalize_advantages>>
argVars == <<obs, actions, rewards, terminals>>
callVars == <<q_values, advantages, reached, calls, info, result, n_updates>>
twinVars == <<twin_rewards, twin_advantages>>
vars == <<agentVars, argVars, callVars, twinVars>>

Obs == 0..MaxOb
Vals == 0..MaxVal
Tables == [Obs -> Vals]
Gammas == {RNorm(k, GammaDen) : k \in 0..GammaDen}
Lambdas == {None} \cup {Some(l) : l \in Gammas}
StepCounts == {None} \cup {Some(n) : n \in (-1)..MaxSteps}

NoInfo == [k \in {} |-> 0]

(***************************************************************************)
(* PGAgent.__init__: every argument is stored as given; nothing is         *)
(* validated.  The critic and baseline_gradient_steps exist only with      *)
(* use_baseline.                                                           *)
(***************************************************************************)
Construct(g, use_baseline, rtg, steps, lam, norm, table) ==
    /\ actor = 0
    /\ critic = IF use_baseline THEN Some([table |-> table, steps |-> 0]) ELSE None
    /\ baseline_gradient_steps = IF use_baseline THEN steps ELSE None
    /\ gamma = g
    /\ use_reward_to_go = rtg
    /\ gae_lambda = lam
    /\ normalize_advantages = norm

NoCall ==
    /\ obs = <<>> /\ actions = <<>> /\ rewards = <<>> /\ terminals = <<>>
    /\ q_values = <<>>
    /\ advantages = RawAdvantages(<<>>)
    /\ reached = {}
    /\ calls = <<>>
    /\ info = NoInfo
    /\ result = "none"
    /\ n_updates = 0

NoTwin ==
    /\ twin_rewards = <<>>
    /\ twin_advantages = RawAdvantages(<<>>)

Init ==
    /\ \E g \in Gammas, use_baseline \in BOOLEAN, rtg \in BOOLEAN,
          steps \in StepCounts, lam \in Lambdas, norm \in BOOLEAN, table \in Tables :
          Construct(g, use_baseline, rtg, steps, lam, norm, table)
    /\ NoCall
    /\ NoTwin

(***************************************************************************)
(* The arguments of update.  A trajectory is [obs, actions, rewards,       *)
(* terminals]; update receives the four lists ListOf(trajs, field).        *)
(***************************************************************************)
ListOf(trajs, field) == [k \in 1..Len(trajs) |-> trajs[k][field]]

\* the terminal markers a rollout of n steps produces: 1 at the last step only
TerminalOfLen(n) == [i \in 1..n |-> IF i = n THEN 1 ELSE 0]

Min(a, b) == IF a < b THEN a ELSE b

\* Trajectories told apart by the lengths of their arrays only; update does
\* not check that the four lengths of one trajectory agree.
ShapeTrajs ==
    {[obs       |-> [i \in 1..lo |-> Min(i - 1, MaxOb)],
      actions   |-> [i \in 1..lo |-> 0],
      rewards   |-> [i \in 1..lr |-> Min(i, MaxReward)],
      terminals |-> TerminalOfLen(lt)] :
        lo \in 1..MaxLen, lr \in 1..MaxLen, lt \in 1..MaxLen}

ListsOf(S) == UNION {[1..n -> S] : n \in 0..MaxTraj}

SameLengths(traj) ==
    /\ Len(traj.obs) = Len(traj.actions)
    /\ Len(traj.obs) = Len(traj.rewards)
    /\ Len(traj.obs) = Len(traj.terminals)

(***************************************************************************)
(* ValueCritic.update: one optimizer step on the mean squared error        *)
(* between forward(obs) and q_values; the step leaves the network with the *)
(* predictions new_table.                                                  *)
(***************************************************************************)
CriticUpdate(c, new_table) == [table |-> new_table, steps |-> c.steps + 1]

\* for _ in range(n): critic.update(obs, q_values)
RECURSIVE CriticLoop(_, _, _)
CriticLoop(c, n, new_table) ==
    IF n <= 0 THEN c ELSE CriticUpdate(CriticLoop(c, n - 1, new_table), new_table)

\* Invocation i of a collaborator by update, with its arguments
ActorCall(o, a, adv) == [fn |-> "actor.update", args |-> <<o, a, adv>>]
CriticCall(o, q) == [fn |-> "critic.update", args |-> <<o, q>>]

\* The dict update returns: each key holds the number (in calls) of the
\* invocation whose diagnostics it carries.  n is the number of passes of
\* the baseline loop.
InfoDict(has_critic, n) ==
    IF has_critic /\ n > 0
    THEN [k \in {"actor_info", "critic_info", "Baseline Loss"} |->
            IF k = "actor_info" THEN 1 ELSE 1 + n]
    ELSE [k \in {"actor_info"} |-> 1]

(***************************************************************************)
(* PGAgent.update on the lists o, a, r, t.  actor_accepts says whether the *)
(* policy's update takes its arguments (it is free to raise when their     *)
(* leading lengths differ); new_table is what the optimizer steps leave in *)
(* the critic.  The result holds the next value of every variable update   *)
(* writes.                                                                 *)
\* lines 65 and 74: the Q-values of every trajectory, flattened
QValuesOf(r) == Concatenate(CalculateQVals(gamma, use_reward_to_go, r))

\* lines 65-79: steps 1 and 2 of update on the lists o, r, t
AdvantagesOf(o, r, t) ==
    EstimateAdvantage(critic /= None,
                      IF critic /= None THEN critic[1].table ELSE <<>>,
                      gae_lambda, gamma, normalize_advantages,
                      Concatenate(o), Concatenate(r), QValuesOf(r), Concatenate(t))

\* update ended by the exception e: no dict is returned
Raised(e, q, adv, done, act, cs) ==
    [result |-> e, q_values |-> q, advantages |-> adv, reached |-> done,
     actor |-> act, critic |-> critic, calls |-> cs, info |-> NoInfo]

\* step 3 run before the exception of step 2 is seen
EstimateFailedAfterPolicy(e, q_f, obs_f, act_f) ==
    Raised(e, q_f, RawAdvantages(<<>>), {"q_values", "flatten", "actor"}, actor + 1,
           <<ActorCall(obs_f, act_f, RawAdvantages(q_f))>>)

\* an exception of step 2 (line 77) leaves update before step 3
EstimateFailed(e, q_f, obs_f, act_f) ==
    Raised(e, q_f, RawAdvantages(<<>>), {"q_values", "flatten"}, actor, <<>>)

(***************************************************************************)
UpdateOutcome(o, a, r, t, actor_accepts, new_table) ==
    LET has_critic == critic /= None
        obs_f == Concatenate(o)
        act_f == Concatenate(a)
        q_f == QValuesOf(r)
        est == AdvantagesOf(o, r, t)
        n == IF has_critic /\ baseline_gradient_steps /= None
             THEN baseline_gradient_steps[1] ELSE 0
        passes == IF n > 0 THEN n ELSE 0
    IN  IF Len(o) = 0
        THEN \* np.concatenate of an empty list
             Raised("ValueError", <<>>, RawAdvantages(<<>>), {"q_values"}, actor, <<>>)
        ELSE IF est.error /= "none"
        THEN EstimateFailed(est.error, q_f, obs_f, act_f)
        ELSE IF ~actor_accepts
        THEN Raised("PolicyError", q_f, est.advantages,
                    {"q_values", "flatten", "advantages"}, actor, <<>>)
        ELSE IF has_critic /\ baseline_gradient_steps = None
        THEN \* range(None)
             Raised("TypeError", q_f, est.advantages,
                    {"q_values", "flatten", "advantages", "actor"}, actor + 1,
                    <<ActorCall(obs_f, act_f, est.advantages)>>)
        ELSE [result     |-> "returned",
              q_values   |-> q_f,
              advantages |-> est.advantages,
              reached    |-> {"q_values", "flatten", "advantages", "actor"}
                             \cup (IF has_critic THEN {"critic"} ELSE {}),
              actor      |-> actor + 1,
              critic     |-> IF has_critic
                             THEN Some(CriticLoop(critic[1], passes, new_table))
                             ELSE None,
              calls      |-> <<ActorCall(obs_f, act_f, est.advantages)>>
                             \o [i \in 1..passes |-> CriticCall(obs_f, q_f)],
              info       |-> InfoDict(has_critic, passes)]

\* whether actor.update gets arrays of one leading length
Aligned(o, a, r) ==
    /\ Len(Concatenate(o)) = Len(Concatenate(a))
    /\ Len(Concatenate(o)) = Len(Concatenate(r))

UpdateWith(trajs, actor_accepts, new_table) ==
    LET o == ListOf(trajs, "obs")
        a == ListOf(trajs, "actions")
        r == ListOf(trajs, "rewards")
        t == ListOf(trajs, "terminals")
    IN  \E out \in {UpdateOutcome(o, a, r, t, actor_accepts, new_table)} :
        /\ obs' = o /\ actions' = a /\ rewards' = r /\ terminals' = t
        /\ q_values' = out.q_values
        /\ advantages' = out.advantages
        /\ reached' = out.reached
        /\ calls' = out.calls
        /\ info' = out.info
        /\ result' = out.result
        /\ actor' = out.actor
        /\ critic' = out.critic
        /\ n_updates' = n_updates + 1
        /\ UNCHANGED <<baseline_gradient_steps, gamma, use_reward_to_go,
                       gae_lambda, normalize_advantages, twinVars>>

\* whether the baseline loop can make a pass
TakesSteps ==
    /\ critic /= None
    /\ baseline_gradient_steps /= None
    /\ baseline_gradient_steps[1] > 0

Update ==
    /\ n_updates < MaxUpdates
    /\ \E trajs \in ListsOf(ShapeTrajs) :
         \E actor_accepts \in
                IF Aligned(ListOf(trajs, "obs"), ListOf(trajs, "actions"),
                           ListOf(trajs, "rewards"))
                THEN {TRUE} ELSE BOOLEAN :
            \E new_table \in IF TakesSteps THEN Tables ELSE {<<>>} :
                UpdateWith(trajs, actor_accepts, new_table)

Next == Update

Spec == Init /\ [][Next]_vars

(***************************************************************************)
(* The estimators on their own: update has been entered with the lists in  *)
(* obs, rewards, terminals, and Estimate runs its steps 1 and 2 (lines     *)
(* 65-79), which touch no parameter.  The same steps are applied to the    *)
(* batch that has twin_rewards in place of rewards.                        *)
(***************************************************************************)
Estimate ==
    /\ result = "none"
    /\ Len(rewards) > 0
    /\ \E est \in {AdvantagesOf(obs, rewards, terminals)} :
         /\ result' = IF est.error = "none" THEN "estimated" ELSE est.error
         /\ advantages' = est.advantages
         /\ reached' = IF est.error = "none"
                       THEN {"q_values", "flatten", "advantages"}
                       ELSE {"q_values", "flatten"}
         /\ twin_advantages' = IF twin_rewards = rewards
                                THEN est.advantages
                                ELSE AdvantagesOf(obs, twin_rewards, terminals).advantages
    /\ q_values' = QValuesOf(rewards)
    /\ UNCHANGED <<agentVars, argVars, calls, info, n_updates, twin_rewards>>

\* update entered with the trajectories trajs; twin_r are the other rewards
Entered(trajs, twin_r) ==
    /\ obs = ListOf(trajs, "obs")
    /\ actions = ListOf(trajs, "actions")
    /\ rewards = ListOf(trajs, "rewards")
    /\ terminals = ListOf(trajs, "terminals")
    /\ q_values = <<>>
    /\ advantages = RawAdvantages(<<>>)
    /\ reached = {}
    /\ calls = <<>>
    /\ info = NoInfo
    /\ result = "none"
    /\ n_updates = 0
    /\ twin_rewards = twin_r
    /\ twin_advantages = RawAdvantages(<<>>)

NonEmptyListsOf(S) == UNION {[1..n -> S] : n \in 1..MaxTraj}
ArraysOf(S, maxlen) == UNION {[1..n -> S] : n \in 1..maxlen}
Rewards == 0..MaxReward

\* a rollout with the rewards r
RewardTraj(r) ==
    [obs       |-> [i \in 1..Len(r) |-> Min(i - 1, MaxOb)],
     actions   |-> [i \in 1..Len(r) |-> 0],
     rewards   |-> r,
     terminals |-> TerminalOfLen(Len(r))]

\* a rollout with the observations o and the rewards r
Rollout(o, r) ==
    [obs       |-> o,
     actions   |-> [i \in 1..Len(r) |-> 0],
     rewards   |-> r,
     terminals |-> TerminalOfLen(Len(r))]

\* arrays of one length with any terminal markers
Marked(o, r, t) ==
    [obs |-> o, actions |-> [i \in 1..Len(r) |-> 0], rewards |-> r, terminals |-> t]

(* The Q-value estimator: no baseline, any gamma, both modes. *)
InitQVals ==
    /\ \E g \in Gammas, rtg \in BOOLEAN :
          Construct(g, FALSE, rtg, None, None, FALSE, <<>>)
    /\ \E rs \in NonEmptyListsOf(ArraysOf(Rewards, MaxLen)) :
          Entered([k \in 1..Len(rs) |-> RewardTraj(rs[k])], rs)

SpecQVals == InitQVals /\ [][Estimate]_vars

(* The advantage estimator without a baseline, any lambda, normalization on
   and off, any terminal markers. *)
InitNoBaseline ==
    /\ \E g \in Gammas, rtg \in BOOLEAN, lam \in Lambdas, norm \in BOOLEAN :
          Construct(g, FALSE, rtg, None, lam, norm, <<>>)
    /\ \E n \in 1..MaxTraj :
         \E ts \in [1..n -> UNION {{Marked([i \in 1..m |-> Min(i - 1, MaxOb)], r, t) :
                                      r \in [1..m -> Rewards], t \in [1..m -> {0, 1}]} :
                                   m \in 1..MaxLen}] :
            Entered(ts, ListOf(ts, "rewards"))

SpecNoBaseline == InitNoBaseline /\ [][Estimate]_vars

(* GAE on any flattened batch: any terminal markers. *)
InitTD ==
    /\ \E g \in Gammas, lam \in Lambdas \ {None}, table \in Tables :
          Construct(g, TRUE, TRUE, Some(1), lam, FALSE, table)
    /\ \E n \in 1..MaxTraj :
         \E ts \in [1..n -> UNION {{Marked(o, r, t) :
                                      o \in [1..m -> Obs], r \in [1..m -> Rewards],
                                      t \in [1..m -> {0, 1}]} :
                                   m \in 1..MaxLen}] :
            Entered(ts, ListOf(ts, "rewards"))

SpecTD == InitTD /\ [][Estimate]_vars

(* GAE on rollouts, and on the batch that differs from it in the rewards of
   trajectory k alone. *)
InitGAE ==
    /\ \E g \in Gammas, rtg \in BOOLEAN, lam \in Lambdas \ {None}, table \in Tables :
          Construct(g, TRUE, rtg, Some(1), lam, FALSE, table)
    /\ \E n \in 1..MaxTraj :
         \E ts \in [1..n -> UNION {{Rollout(o, r) :
                                      o \in [1..m -> Obs], r \in [1..m -> Rewards]} :
                                   m \in 1..MaxLen}] :
            \E k \in 1..n :
               \E other \in [1..Len(ts[k].rewards) -> Rewards] :
                  Entered(ts, [ListOf(ts, "rewards") EXCEPT ![k] = other])

SpecGAE == InitGAE /\ [][Estimate]_vars

(***************************************************************************)
(* What the claims speak of.                                               *)
(***************************************************************************)
RECURSIVE IPow(_, _)
IPow(b, k) == IF k = 0 THEN 1 ELSE b * IPow(b, k - 1)

RECURSIVE WeightedUpTo(_, _, _)
WeightedUpTo(g, r, k) ==
    IF k = 0 THEN 0
    ELSE WeightedUpTo(g, r, k - 1) + r[k] * IPow(g[1], k - 1) * IPow(g[2], Len(r) - k)

\* sum_{t=0}^{T-1} g^t r_t as one fraction over the common denominator
FullReturn(g, r) == RNorm(WeightedUpTo(g, r, Len(r)), IPow(g[2], Len(r) - 1))

\* sum_{t'=t}^{T-1} g^(t'-t) r_t' (t is 1-based)
TailSum(g, r, t) == FullReturn(g, SubSeq(r, t, Len(r)))

\* the batch index before the first timestep of trajectory k
RECURSIVE Offset(_, _)
Offset(arrays, k) == IF k = 1 THEN 0 ELSE Offset(arrays, k - 1) + Len(arrays[k - 1])

BatchSize == Offset(rewards, Len(rewards) + 1)
FlatObs == Concatenate(obs)
FlatRewards == Concatenate(rewards)
FlatTerminals == Concatenate(terminals)

\* the baseline's prediction at batch index i, and 0 past the last index
V(i) == IF i > Len(FlatObs) THEN Zero ELSE RInt(critic[1].table[FlatObs[i]])

\* terminal = 1 exactly at the last index of each trajectory
TerminalsMarkEnds ==
    FlatTerminals = Concatenate([k \in 1..Len(rewards) |-> TerminalOfLen(Len(rewards[k]))])

\* C1: in reward-to-go mode the flattened Q-values hold, at timestep t of
\* trajectory k, the discounted tail sum of the rewards of trajectory k alone,
\* in the order of the trajectories and timesteps; the last entry of a
\* trajectory is its last reward and the first its full discounted return.
C1_RewardToGoPerTrajectory ==
    (use_reward_to_go /\ result = "estimated") =>
        /\ Len(q_values) = BatchSize
        /\ \A k \in 1..Len(rewards) :
             /\ \A t \in 1..Len(rewards[k]) :
                  q_values[Offset(rewards, k) + t] = TailSum(gamma, rewards[k], t)
             /\ q_values[Offset(rewards, k) + Len(rewards[k])]
                   = RInt(rewards[k][Len(rewards[k])])
             /\ q_values[Offset(rewards, k) + 1] = FullReturn(gamma, rewards[k])

C1_Witness ==
    /\ use_reward_to_go /\ result = "estimated"
    /\ gamma = RNorm(1, 2)
    /\ Len(rewards) = 2
    /\ rewards[1] = <<1, 1>> /\ rewards[2] = <<0, 1>>
    /\ q_values = <<RNorm(3, 2), One, RNorm(1, 2), One>>

\* C2: with reward-to-go off, a trajectory of length T >= 1 gets exactly T
\* Q-values, all equal to its full discounted return; for T = 1 the entry is
\* r_0, which is also what reward-to-go mode gives.
C2_FullTrajectoryReturn ==
    (~use_reward_to_go /\ result = "estimated") =>
        /\ Len(q_values) = BatchSize
        /\ \A k \in 1..Len(rewards) :
             /\ \A t \in 1..Len(rewards[k]) :
                  q_values[Offset(rewards, k) + t] = FullReturn(gamma, rewards[k])
             /\ Len(rewards[k]) = 1 =>
                  /\ q_values[Offset(rewards, k) + 1] = RInt(rewards[k][1])
                  /\ DiscountedRewardToGo(gamma, rewards[k]) = <<RInt(rewards[k][1])>>

C2_Witness ==
    /\ ~use_reward_to_go /\ result = "estimated"
    /\ gamma = RNorm(1, 2)
    /\ rewards = <<<<1, 1>>, <<1>>>>
    /\ q_values = <<RNorm(3, 2), RNorm(3, 2), One>>

\* C3: GAE, normalization off, terminals marking the trajectory ends: in two
\* batches that differ in the rewards of one trajectory only, every index of
\* every other trajectory has the same advantage.
C3_GaeIndependentAcrossTrajectories ==
    (/\ critic /= None /\ gae_lambda /= None /\ ~normalize_advantages
     /\ result = "estimated"
     /\ TerminalsMarkEnds
     /\ Cardinality({k \in 1..Len(rewards) : twin_rewards[k] /= rewards[k]}) <= 1) =>
        \A k \in 1..Len(rewards) :
            twin_rewards[k] = rewards[k] =>
                \A t \in 1..Len(rewards[k]) :
                    advantages.vals[Offset(rewards, k) + t]
                        = twin_advantages.vals[Offset(rewards, k) + t]

C3_Witness ==
    /\ critic /= None /\ ~normalize_advantages /\ result = "estimated"
    /\ gae_lambda = Some(RNorm(1, 2)) /\ gamma = RNorm(1, 2)
    /\ TerminalsMarkEnds
    /\ Len(rewards) = 2 /\ Len(rewards[1]) = 2 /\ Len(rewards[2]) = 2
    /\ twin_rewards[1] = rewards[1]
    /\ twin_rewards[2] /= rewards[2]
    /\ advantages.vals[3] /= twin_advantages.vals[3]
    /\ advantages.vals[1] /= Zero

\* C4: GAE with lambda = 1, normalization off, reward-to-go Q-values and
\* terminals marking the trajectory ends: the advantage at every batch index
\* is Q_i - V(s_i).
C4_GaeLambdaOneIsQMinusV ==
    (/\ critic /= None /\ gae_lambda = Some(One) /\ ~normalize_advantages
     /\ use_reward_to_go
     /\ result = "estimated"
     /\ TerminalsMarkEnds) =>
        /\ Len(advantages.vals) = Len(q_values)
        /\ \A i \in 1..Len(q_values) :
             advantages.vals[i] = RSub(q_values[i], V(i))

C4_Witness ==
    /\ critic /= None /\ gae_lambda = Some(One) /\ ~normalize_advantages
    /\ use_reward_to_go /\ result = "estimated" /\ TerminalsMarkEnds
    /\ gamma = RNorm(1, 2)
    /\ Len(rewards) = 2 /\ Len(rewards[1]) = 2 /\ Len(rewards[2]) = 2
    /\ V(1) = Zero /\ V(2) = One /\ V(3) = One
    /\ rewards[1] = <<1, 1>>
    /\ advantages.vals[1] = RNorm(3, 2)

\* C9: GAE with lambda = 0 and normalization off: the advantage at every
\* batch index i is r_i + gamma * V(s_{i+1}) * (1 - terminal_i) - V(s_i), with
\* V = 0 past the last index.
C9_GaeLambdaZeroIsTdResidual ==
    (/\ critic /= None /\ gae_lambda = Some(Zero) /\ ~normalize_advantages
     /\ result = "estimated") =>
        /\ Len(advantages.vals) = Len(FlatObs)
        /\ \A i \in 1..Len(FlatObs) :
             advantages.vals[i] =
                RSub(RAdd(RInt(FlatRewards[i]),
                          RMul(gamma, RMul(V(i + 1), RInt(1 - FlatTerminals[i])))),
                     V(i))

C9_Witness ==
    /\ critic /= None /\ gae_lambda = Some(Zero) /\ ~normalize_advantages
    /\ result = "estimated"
    /\ gamma = RNorm(1, 2)
    /\ Len(FlatObs) = 3
    /\ FlatTerminals = <<0, 0, 1>>
    /\ FlatRewards = <<1, 1, 1>>
    /\ V(1) = Zero /\ V(2) = One /\ V(3) = One
    /\ advantages.vals = <<RNorm(3, 2), RNorm(1, 2), Zero>>

\* the advantage array equals the Q-value array entry for entry
AdvantagesAreQValues ==
    /\ Len(advantages.vals) = Len(q_values)
    /\ \A i \in 1..Len(q_values) : AdvantageIs(advantages, i, q_values[i])

\* C10 as amended: without a baseline and with normalization off, the
\* advantages are the Q-values entry for entry, whatever the rewards, the
\* terminal markers and lambda.
C10_NoBaselineIdentityUnnormalized ==
    (critic = None /\ ~normalize_advantages /\ result = "estimated") =>
        AdvantagesAreQValues

\* C10 as stated: without a baseline the advantages are the Q-values entry for
\* entry (also when normalize_advantages is set).
C10_NoBaselineIdentity ==
    (critic = None /\ result = "estimated") => AdvantagesAreQValues

C10_Witness ==
    /\ critic = None /\ ~normalize_advantages /\ result = "estimated"
    /\ gae_lambda = Some(RNorm(1, 2))
    /\ use_reward_to_go /\ gamma = RNorm(1, 2)
    /\ rewards = <<<<1, 1>>, <<0, 1>>>>
    /\ terminals = <<<<0, 0>>, <<1, 1>>>>
    /\ advantages.vals = <<RNorm(3, 2), One, RNorm(1, 2), One>>

\* a configuration the agent must not be built with: lambda set without a
\* baseline, or a baseline without a positive number of gradient steps
InvalidConfiguration ==
    \/ critic = None /\ gae_lambda /= None
    \/ critic /= None /\ baseline_gradient_steps = None
    \/ critic /= None /\ baseline_gradient_steps /= None
                      /\ baseline_gradient_steps[1] <= 0

\* C5: a call of update with trajectories of matching array lengths that
\* gets to step 3 invokes actor.update once with the
\* flattened (obs, actions, advantages), then, with a baseline, critic.update
\* baseline_gradient_steps times with the flattened obs and the Q-values of
\* step 1, and returns the policy's diagnostics and those of the last baseline
\* step; without a baseline critic.update is not invoked.
C5_UpdateProtocol ==
    (/\ n_updates > 0
     /\ \A k \in 1..Len(obs) :
           SameLengths([obs |-> obs[k], actions |-> actions[k],
                        rewards |-> rewards[k], terminals |-> terminals[k]])
     /\ "advantages" \in reached) =>
        /\ result = "returned"
        /\ Len(calls) >= 1
        /\ calls[1] = ActorCall(FlatObs, Concatenate(actions), advantages)
        /\ "actor_info" \in DOMAIN info /\ info["actor_info"] = 1
        /\ critic = None => Len(calls) = 1 /\ DOMAIN info = {"actor_info"}
        /\ critic /= None =>
             /\ Len(calls) = 1 + baseline_gradient_steps[1]
             /\ \A i \in 2..Len(calls) : calls[i] = CriticCall(FlatObs, q_values)
             /\ "critic_info" \in DOMAIN info
             /\ info["critic_info"] = Len(calls)
             /\ info["Baseline Loss"] = Len(calls)

\* C6: a call of update on an agent with a baseline whose predictions do not
\* have the shape of the flattened Q-values ends with an error, and neither
\* actor.update nor critic.update was invoked: both keep their parameters.
C6_ShapeMismatchBeforeMutation ==
    [][(/\ n_updates' = n_updates + 1
        /\ critic /= None
        /\ Len(obs') > 0
        /\ CriticForward(critic[1].table, Concatenate(obs')).shape
              /= <<Len(QValuesOf(rewards'))>>) =>
            (/\ result' = "AssertionError"
             /\ calls' = <<>>
             /\ actor' = actor
             /\ critic' = critic)]_vars

C6_Witness ==
    /\ result = "AssertionError"
    /\ critic /= None
    /\ Len(obs) = 2
    /\ Len(FlatObs) = 3 /\ BatchSize = 2
    /\ actor = 0 /\ critic[1].steps = 0 /\ calls = <<>>

\* C7: update only ever runs on an agent whose configuration is valid, the
\* others being rejected by the constructor.
C7_InvalidConfigurationRejected ==
    result = "returned" => ~InvalidConfiguration

\* C8: a call of update with a trajectory whose four arrays differ in length
\* fails before anything is flattened.
C8_MalformedRejectedBeforeFlatten ==
    (n_updates > 0 /\ result /= "PolicyError" /\ \E k \in 1..Len(obs) :
                         ~SameLengths([obs |-> obs[k], actions |-> actions[k],
                                       rewards |-> rewards[k],
                                       terminals |-> terminals[k]])) =>
        /\ result \notin {"returned", "none"}
        /\ "flatten" \notin reached
        /\ calls = <<>>

====
